---- MODULE Spec2Model ----
(***************************************************************************)
(* Model of the Drawing Imposter game server (server index.ts, words.ts).  *)
(* One action per socket.io handler plus the turn-timer callback.  Every   *)
(* handler runs to completion (Node's single thread), so each is one step. *)
(*                                                                         *)
(* Not modelled: display names and the chat log (chat:send touches only     *)
(* room.chat), and the wall clock: Date.now() reads as DateNow in every     *)
(* step and a pending timer may fire at any later step.                     *)
(***************************************************************************)
EXTENDS Integers, Sequences, FiniteSets, TLC

VARIABLES
    rooms,         \* Map code -> RoomState                     (rooms)
    socketToRoom,  \* Map socket id -> code                     (socketToRoom)
    connected,     \* socket ids whose connection is open and that created or joined a room
    closed,        \* socket ids whose connection has ended
    timers,        \* per room: scheduled, not yet run, setTimeout callbacks
    seats          \* history: players added so far by room:create and room:join

vars == <<rooms, socketToRoom, connected, closed, timers, seats>>

----------------------------------------------------------------------------
(* Bounds of the model *)

MaxSeats   == 3     \* room:create and room:join requests that add a player
MaxRound   == 2     \* rounds a room may start
MaxStrokes == 1     \* strokes recorded per turn
MaxScore   == 2     \* largest win or loss count a guess may produce
MaxDraw    == 0     \* largest list index Math.random() yields in pickWordPair

SocketIds == <<"s1", "s2", "s3">>    \* socket ids, in the order socket.io hands them out
CodeList  == <<"A", "B">>            \* room codes, in the order makeRoomCode draws them
Sockets == {SocketIds[i] : i \in 1..Len(SocketIds)}
Codes   == {CodeList[i] : i \in 1..Len(CodeList)}
JoinCodes == {"A", "a", "B"}         \* what a client may type into room:join
Targets == {"s1", "s2"}              \* accused identities a client may send
Strokes == {[x0 |-> 0, y0 |-> 0, x1 |-> 1, y1 |-> 1,
             color |-> "#fff", size |-> 4, tool |-> "brush"]}

NULL  == "null"        \* JavaScript null
UNDEF == "undefined"   \* JavaScript undefined
None    == <<>>        \* a nullable number that is null
Some(x) == <<x>>       \* a nullable number that is x

----------------------------------------------------------------------------
(* Program constants *)

TURN_MS == 20000
DateNow == 0

WORDS ==
    <<"Tisch", "Katze", "Auto", "Baum", "Haus", "Brot", "Lampe", "Brille", "Fahrrad", "Sonne",
      "Blume", "Schule", "Uhr", "Telefon", "Berg", "Fenster", "Flasche", "Zug", "Stuhl", "Apfel">>

FAKE_WORDS ==
    <<"Rakete", "Nebel", "Roboter", "Wolke", "Insel", "Pyramide", "Drache", "Magnet", "Stern", "Tiger",
      "Kompass", "Vulkan", "Palme", "Mikrofon", "Traktor", "Anker", "Planet", "Komet", "Klavier", "Tunnel">>

\* the indices the model lets Math.random() yield in pickWordPair
WordDraws == 0..MaxDraw

Guesses == {"Tisch", " tISch ", "T isch", "Rakete"}

\* The characters of the strings the code normalises; a word that no guess
\* of Guesses resembles counts as one character.
Chars(s) ==
    CASE s = "Tisch"   -> <<"T", "i", "s", "c", "h">>
      [] s = " tISch " -> <<" ", "t", "I", "S", "c", "h", " ">>
      [] s = "T isch"  -> <<"T", " ", "i", "s", "c", "h">>
      [] s = "Rakete"  -> <<"R", "a", "k", "e", "t", "e">>
      [] OTHER         -> <<s>>

----------------------------------------------------------------------------
(* String helpers: String.prototype.toLowerCase / trim / toUpperCase *)

LowerOf == [c \in {"T", "K", "R", "N", "I", "S", "C", "H"} |->
              CASE c = "T" -> "t" [] c = "K" -> "k" [] c = "R" -> "r"
                [] c = "N" -> "n" [] c = "I" -> "i" [] c = "S" -> "s"
                [] c = "C" -> "c" [] c = "H" -> "h"]

toLowerCase(s) == [i \in 1..Len(s) |-> IF s[i] \in DOMAIN LowerOf THEN LowerOf[s[i]] ELSE s[i]]

RECURSIVE trimStart(_)
trimStart(s) == IF s # <<>> /\ Head(s) = " " THEN trimStart(Tail(s)) ELSE s

RECURSIVE trimEnd(_)
trimEnd(s) == IF s # <<>> /\ s[Len(s)] = " " THEN trimEnd(SubSeq(s, 1, Len(s) - 1)) ELSE s

trim(s) == trimEnd(trimStart(s))

toUpperCase(code) == CASE code = "a" -> "A" [] code = "b" -> "B" [] OTHER -> code

----------------------------------------------------------------------------
(* Map helpers *)

EmptyMap == [k \in {} |-> k]

MapSet(m, k, v) == [x \in DOMAIN m \cup {k} |-> IF x = k THEN v ELSE m[x]]

MapDelete(m, k) == [x \in DOMAIN m \ {k} |-> m[x]]

RECURSIVE Filter(_, _)
Filter(seq, id) ==
    IF seq = <<>> THEN <<>>
    ELSE IF Head(seq).id # id THEN <<Head(seq)>> \o Filter(Tail(seq), id)
    ELSE Filter(Tail(seq), id)

Ids(players) == {players[i].id : i \in 1..Len(players)}

----------------------------------------------------------------------------
(* words.ts *)

\* r1, r2: the two Math.random() draws, already scaled to list indices (0-based)
IndexOf(list, w) == CHOOSE i \in 0..(Len(list) - 1) :
                        /\ list[i + 1] = w
                        /\ \A j \in 0..(i - 1) : list[j + 1] # w

pickWordPair(r1, r2) ==
    LET realWord == WORDS[r1 + 1]
        fake0    == FAKE_WORDS[r2 + 1]
        fakeWord == IF fake0 = realWord
                    THEN FAKE_WORDS[((IndexOf(FAKE_WORDS, fake0) + 1) % Len(FAKE_WORDS)) + 1]
                    ELSE fake0
    IN [realWord |-> realWord, fakeWord |-> fakeWord]

----------------------------------------------------------------------------
(* Room state and the functions of index.ts.  A function that emits or     *)
(* touches the timer maps an effect record                                  *)
(*   [hit, room: RoomState, msgs: emitted so far, timers: scheduled        *)
(*    callbacks of the room]                                                *)
(* to the effect record after it ran.                                       *)
(* Fields of RoomState starting with g are history (ghost) fields the code  *)
(* does not have; no handler reads them:                                    *)
(*   gArmedTurn  turnIndex when the timer was last armed                    *)
(*   gReached    the current round has reached `results`                    *)
(*   gSeen       per player in the room: rounds that reached `results`      *)
(*               while the player was in the room                           *)
(*   gResolved   computeVoting calls in the current round                   *)
(*   gCast       the votes that count, in the order they were cast (kept    *)
(*               until the round reaches `results`)                         *)
(*   gTurns      per player in the room since the round started: the turns  *)
(*               started with it as the drawer (kept until the round        *)
(*               reaches `results`)                                         *)

NewPlayer(id, host) ==
    [id |-> id, isHost |-> host, connected |-> TRUE, wins |-> 0, losses |-> 0]

NewRoom(code, id) ==
    [code |-> code,
     players |-> <<NewPlayer(id, TRUE)>>,
     phase |-> "lobby",
     hostId |-> id,
     turnIndex |-> 0,
     round |-> 0,
     imposterId |-> NULL,
     realWord |-> NULL,
     fakeWord |-> NULL,
     currentDrawerId |-> NULL,
     drawing |-> <<>>,
     votes |-> <<>>,
     leaderboard |-> MapSet(EmptyMap, id, [wins |-> 0, losses |-> 0]),
     turnEndsAt |-> None,
     timerRef |-> UNDEF,
     gArmedTurn |-> 0,
     gReached |-> FALSE,
     gSeen |-> MapSet(EmptyMap, id, 0),
     gResolved |-> 0,
     gCast |-> <<>>,
     gTurns |-> EmptyMap,
     gQuiet |-> FALSE]

\* mutant: the snapshot always carries the imposter
roomView_Leak(room) ==
    [code |-> room.code,
     phase |-> room.phase,
     players |-> room.players,
     turnIndex |-> room.turnIndex,
     round |-> room.round,
     imposterId |-> room.imposterId,
     currentDrawerId |-> room.currentDrawerId,
     drawing |-> room.drawing,
     turnEndsAt |-> room.turnEndsAt,
     leaderboard |-> [i \in 1..Len(room.players) |->
        LET p == room.players[i] IN
        [id |-> p.id,
         wins |-> IF p.id \in DOMAIN room.leaderboard
                  THEN room.leaderboard[p.id].wins ELSE p.wins,
         losses |-> IF p.id \in DOMAIN room.leaderboard
                    THEN room.leaderboard[p.id].losses ELSE p.losses]]]

roomView(room) ==
    [code |-> room.code,
     phase |-> room.phase,
     players |-> room.players,
     turnIndex |-> room.turnIndex,
     round |-> room.round,
     imposterId |-> IF room.phase = "results" THEN room.imposterId ELSE NULL,
     currentDrawerId |-> room.currentDrawerId,
     drawing |-> room.drawing,
     turnEndsAt |-> room.turnEndsAt,
     leaderboard |-> [i \in 1..Len(room.players) |->
        LET p == room.players[i] IN
        [id |-> p.id,
         wins |-> IF p.id \in DOMAIN room.leaderboard
                  THEN room.leaderboard[p.id].wins ELSE p.wins,
         losses |-> IF p.id \in DOMAIN room.leaderboard
                    THEN room.leaderboard[p.id].losses ELSE p.losses]]]

Emit(e, msg) == [e EXCEPT !.msgs = Append(@, msg)]

emitRoom(e) ==
    Emit(e, [ev |-> "room:update", to |-> e.room.code, view |-> roomView(e.room)])

RECURSIVE WordsFrom(_, _)
WordsFrom(room, i) ==
    IF i > Len(room.players) THEN <<>>
    ELSE LET p == room.players[i] IN
         <<[ev |-> "word:assigned", to |-> p.id,
            word |-> IF p.id = room.imposterId THEN room.fakeWord ELSE room.realWord,
            isImposter |-> (p.id = room.imposterId)]>> \o WordsFrom(room, i + 1)

broadcastWords(e) == [e EXCEPT !.msgs = @ \o WordsFrom(e.room, 1)]

\* timerRef: UNDEF, "pending" (handle of a scheduled callback) or "dead"
\* (handle of a callback that ran or was cleared)
clearTimer(e) ==
    IF e.room.timerRef = "pending"
    THEN [e EXCEPT !.room.timerRef = "dead", !.timers = @ - 1]
    ELSE e

\* mutant: no callback is scheduled
setTimer_Unarmed(e) ==
    [e EXCEPT !.room.gArmedTurn = e.room.turnIndex]

\* timer = setTimeout(...): one more callback is scheduled and timer refers to it
setTimer(e) ==
    [e EXCEPT !.room.timerRef = "pending", !.timers = @ + 1,
              !.room.gArmedTurn = e.room.turnIndex]

\* mutant: arming does not cancel the pending timer
startTurn_NoClear(e) ==
    IF Len(e.room.players) = 0 THEN e
    ELSE IF e.room.turnIndex >= Len(e.room.players)
    THEN LET e1 == [e EXCEPT !.room.phase = "voting",
                             !.room.currentDrawerId = NULL,
                             !.room.turnEndsAt = None]
         IN Emit(emitRoom(e1), [ev |-> "phase:voting", to |-> e.room.code])
    ELSE LET e1 == [e EXCEPT !.room.phase = "drawing",
                             !.room.currentDrawerId =
                                 IF e.room.turnIndex + 1 \in DOMAIN e.room.players
                                 THEN e.room.players[e.room.turnIndex + 1].id ELSE NULL,
                             !.room.turnEndsAt = Some(DateNow + TURN_MS),
                             !.room.drawing = <<>>,
                             !.room.gTurns =
                                 IF e.room.turnIndex + 1 \in DOMAIN e.room.players
                                    /\ e.room.players[e.room.turnIndex + 1].id \in DOMAIN @
                                 THEN [@ EXCEPT ![e.room.players[e.room.turnIndex + 1].id] = @ + 1]
                                 ELSE @]
             e2 == Emit(emitRoom(e1),
                        [ev |-> "turn:started", to |-> e.room.code,
                         drawerId |-> e1.room.currentDrawerId,
                         turnEndsAt |-> e1.room.turnEndsAt])
         IN setTimer(e2)

startTurn(e) ==
    IF Len(e.room.players) = 0 THEN e
    ELSE IF e.room.turnIndex >= Len(e.room.players)
    THEN LET e1 == [e EXCEPT !.room.phase = "voting",
                             !.room.currentDrawerId = NULL,
                             !.room.turnEndsAt = None]
         IN Emit(emitRoom(e1), [ev |-> "phase:voting", to |-> e.room.code])
    ELSE LET e1 == [e EXCEPT !.room.phase = "drawing",
                             !.room.currentDrawerId =
                                 IF e.room.turnIndex + 1 \in DOMAIN e.room.players
                                 THEN e.room.players[e.room.turnIndex + 1].id ELSE NULL,
                             !.room.turnEndsAt = Some(DateNow + TURN_MS),
                             !.room.drawing = <<>>,
                             !.room.gTurns =
                                 IF e.room.turnIndex + 1 \in DOMAIN e.room.players
                                    /\ e.room.players[e.room.turnIndex + 1].id \in DOMAIN @
                                 THEN [@ EXCEPT ![e.room.players[e.room.turnIndex + 1].id] = @ + 1]
                                 ELSE @]
             e2 == Emit(emitRoom(e1),
                        [ev |-> "turn:started", to |-> e.room.code,
                         drawerId |-> e1.room.currentDrawerId,
                         turnEndsAt |-> e1.room.turnEndsAt])
         IN setTimer(clearTimer(e2))

\* mutant: the callback forgets to advance turnIndex
timerCallback_KeepIndex(e) == startTurn(e)

\* the callback startTurn hands to setTimeout
timerCallback(e) == startTurn([e EXCEPT !.room.turnIndex = @ + 1])

\* mutant: the player floor is 2
startGame_TwoPlayers(e, r0, r1, r2) ==
    IF Len(e.room.players) < 2 THEN e
    ELSE LET pair == pickWordPair(r1, r2)
             e1 == [e EXCEPT !.room.round = @ + 1,
                             !.room.turnIndex = 0,
                             !.room.votes = <<>>,
                             !.room.imposterId = e.room.players[(r0 % Len(e.room.players)) + 1].id,
                             !.room.realWord = pair.realWord,
                             !.room.fakeWord = pair.fakeWord,
                             !.room.gReached = FALSE,
                             !.room.gResolved = 0,
                             !.room.gCast = <<>>,
                             !.room.gTurns = [id \in Ids(e.room.players) |-> 0]]
         IN startTurn(Emit(broadcastWords(e1), [ev |-> "sfx", to |-> e.room.code, name |-> "turn"]))

\* r0: index of the imposter, r1, r2: indices of the words (Math.random draws)
startGame(e, r0, r1, r2) ==
    IF Len(e.room.players) < 3 THEN e
    ELSE LET pair == pickWordPair(r1, r2)
             e1 == [e EXCEPT !.room.round = @ + 1,
                             !.room.turnIndex = 0,
                             !.room.votes = <<>>,
                             !.room.imposterId = e.room.players[r0 + 1].id,
                             !.room.realWord = pair.realWord,
                             !.room.fakeWord = pair.fakeWord,
                             !.room.gReached = FALSE,
                             !.room.gResolved = 0,
                             !.room.gCast = <<>>,
                             !.room.gTurns = [id \in Ids(e.room.players) |-> 0]]
         IN startTurn(Emit(broadcastWords(e1), [ev |-> "sfx", to |-> e.room.code, name |-> "turn"]))

----------------------------------------------------------------------------
(* Scoring *)

Bump(lb, id, field) ==
    IF field = "wins" THEN [lb EXCEPT ![id].wins = @ + 1]
    ELSE [lb EXCEPT ![id].losses = @ + 1]

\* history: the round reaches `results`; counted once per round
ReachResults(room) ==
    IF room.gReached THEN [room EXCEPT !.gCast = <<>>, !.gTurns = EmptyMap]
    ELSE [room EXCEPT !.gReached = TRUE,
                      !.gSeen = [id \in DOMAIN @ |->
                                    IF id \in Ids(room.players) THEN @[id] + 1 ELSE @[id]],
                      !.gCast = <<>>,
                      !.gTurns = EmptyMap]

\* votes: the entries of room.votes in key (insertion) order
RECURSIVE Tally(_, _)
Tally(votes, tally) ==
    IF votes = <<>> THEN tally
    ELSE LET t == Head(votes).target
             hit == {i \in 1..Len(tally) : tally[i].id = t}
         IN Tally(Tail(votes),
                  IF hit = {} THEN Append(tally, [id |-> t, n |-> 1])
                  ELSE [i \in 1..Len(tally) |->
                          IF i \in hit THEN [tally[i] EXCEPT !.n = @ + 1] ELSE tally[i]])

\* Array.prototype.sort((a, b) => b[1] - a[1]): stable, descending by count
RECURSIVE SortTally(_)
SortTally(tally) ==
    IF tally = <<>> THEN <<>>
    ELSE LET rest == SortTally(SubSeq(tally, 1, Len(tally) - 1))
             x == tally[Len(tally)]
             k == Cardinality({i \in 1..Len(rest) : rest[i].n >= x.n})
         IN SubSeq(rest, 1, k) \o <<x>> \o SubSeq(rest, k + 1, Len(rest))

RECURSIVE ScoreVoting(_, _, _, _)
ScoreVoting(lb, room, i, imposterWins) ==
    IF i > Len(room.players) THEN lb
    ELSE LET p == room.players[i]
             lb0 == IF p.id \in DOMAIN lb THEN lb
                    ELSE MapSet(lb, p.id, [wins |-> p.wins, losses |-> p.losses])
             lb1 == IF imposterWins
                    THEN (IF p.id = room.imposterId THEN Bump(lb0, p.id, "wins")
                          ELSE Bump(lb0, p.id, "losses"))
                    ELSE (IF p.id = room.imposterId THEN Bump(lb0, p.id, "losses")
                          ELSE Bump(lb0, p.id, "wins"))
         IN ScoreVoting(lb1, room, i + 1, imposterWins)

computeVoting(e) ==
    LET room == e.room
        tally == Tally(room.votes, <<>>)
        sorted == SortTally(tally)
        suspected == IF sorted = <<>> THEN UNDEF ELSE sorted[1].id
        imposterWins == suspected # room.imposterId
        lb == IF room.imposterId # NULL
              THEN ScoreVoting(room.leaderboard, room, 1, imposterWins)
              ELSE room.leaderboard
        room1 == [ReachResults(room) EXCEPT !.leaderboard = lb,
                                            !.phase = "results",
                                            !.turnEndsAt = None,
                                            !.gResolved = @ + 1]
    IN Emit(emitRoom([e EXCEPT !.room = room1]),
            [ev |-> "phase:results", to |-> room.code,
             suspected |-> suspected,
             imposterId |-> room.imposterId,
             realWord |-> room.realWord,
             tally |-> tally,
             imposterWins |-> imposterWins])

RECURSIVE ScoreGuess(_, _, _, _)
ScoreGuess(lb, players, i, id) ==
    IF i > Len(players) THEN lb
    ELSE LET p == players[i]
             lb0 == IF p.id \in DOMAIN lb THEN lb
                    ELSE MapSet(lb, p.id, [wins |-> 0, losses |-> 0])
             lb1 == IF p.id = id THEN Bump(lb0, p.id, "wins")
                    ELSE Bump(lb0, p.id, "losses")
         IN ScoreGuess(lb1, players, i + 1, id)

----------------------------------------------------------------------------
(* Handlers.  Each handler is an operator from the current state and the   *)
(* handler's inputs to the effect record it ends with (room: the room it    *)
(* resolved, as it leaves it; msgs: what it emitted; timers: the room's     *)
(* scheduled callbacks), and an action that stores the room and the timers. *)
(* A handler that returns before it has a room leaves the state as it is:   *)
(* Nothing (hit: the handler resolved a room and went on).                  *)

Nothing == [hit |-> FALSE, room |-> NULL, msgs |-> <<>>, timers |-> 0]

\* the effect record a handler starts from
Begin(code) == [hit |-> TRUE, room |-> rooms[code], msgs |-> <<>>, timers |-> timers[code]]

Reply(e, s, body) == Emit(e, [ev |-> "cb", to |-> s, body |-> body])

\* the handler ends: its room and the room's timers are stored
Commit(e) ==
    IF ~e.hit THEN UNCHANGED <<rooms, timers>>
    ELSE /\ rooms' = MapSet(rooms, e.room.code, e.room)
         /\ timers' = [timers EXCEPT ![e.room.code] = e.timers]

\* A connection the server has no trace of yet gets the next socket id when
\* it first creates or joins a room (until then every handler of it returns
\* at `if (!code) return`, and a room:join with an unknown code only replies
\* with the error).
Known(s) ==
    \/ s \in connected
    \/ /\ s \notin closed
       /\ \A i \in 1..Len(SocketIds) :
             SocketIds[i] = s => \A j \in 1..(i - 1) : SocketIds[j] \in connected \cup closed

\* makeRoomCode() draws a 6-character code; the model draws the first code
\* of CodeList that no registered room has.
makeRoomCode ==
    CodeList[CHOOSE i \in 1..Len(CodeList) :
                /\ CodeList[i] \notin DOMAIN rooms
                /\ \A j \in 1..(i - 1) : CodeList[j] \in DOMAIN rooms]

onRoomCreate(s, code) ==
    LET e == [hit |-> TRUE, room |-> NewRoom(code, s), msgs |-> <<>>, timers |-> timers[code]]
    IN Reply(emitRoom(e), s, [code |-> code, playerId |-> s])

RoomCreate(s) ==
    /\ Known(s)
    /\ Codes \ DOMAIN rooms # {}
    /\ seats < MaxSeats
    /\ Commit(onRoomCreate(s, makeRoomCode))
    /\ socketToRoom' = MapSet(socketToRoom, s, makeRoomCode)
    /\ connected' = connected \cup {s}
    /\ seats' = seats + 1
    /\ UNCHANGED closed

onRoomJoin(s, code) ==
    IF toUpperCase(code) \notin DOMAIN rooms
    THEN Reply(Nothing, s, [error |-> "Lobby nicht gefunden."])
    ELSE LET e == Begin(toUpperCase(code))
             e1 == [e EXCEPT !.room.players = Append(@, NewPlayer(s, FALSE)),
                             !.room.leaderboard = MapSet(@, s, [wins |-> 0, losses |-> 0]),
                             !.room.gSeen = IF s \in Ids(e.room.players) THEN @
                                            ELSE MapSet(@, s, 0)]
         IN Reply(emitRoom(e1), s, [code |-> e.room.code, playerId |-> s])

RoomJoin(s, code) ==
    /\ Known(s)
    /\ LET e == onRoomJoin(s, code)
       IN IF ~e.hit THEN UNCHANGED <<rooms, timers, socketToRoom, seats, connected>>
          ELSE /\ seats < MaxSeats
               /\ Commit(e)
               /\ socketToRoom' = MapSet(socketToRoom, s, e.room.code)
               /\ seats' = seats + 1
               /\ connected' = connected \cup {s}
    /\ UNCHANGED closed

\* const code = socketToRoom.get(socket.id); const room = rooms.get(code)
HasRoom(s) == s \in DOMAIN socketToRoom /\ socketToRoom[s] \in DOMAIN rooms

RoomOf(s) == rooms[socketToRoom[s]]

\* mutant: any player of the room may start
onGameStart_AnyPlayer(s, r0, r1, r2) ==
    IF ~HasRoom(s) THEN Nothing
    ELSE startGame(Begin(socketToRoom[s]), r0, r1, r2)

\* game:start; r0, r1, r2: the Math.random() draws of startGame
onGameStart(s, r0, r1, r2) ==
    IF ~HasRoom(s) THEN Nothing
    ELSE IF RoomOf(s).hostId # s THEN Nothing
    ELSE startGame(Begin(socketToRoom[s]), r0, r1, r2)

\* the draws are in range (a start that returns early draws nothing), and
\* the round counter stays within the bound
StartInputs(s, r0) ==
    IF HasRoom(s) /\ RoomOf(s).hostId = s /\ Len(RoomOf(s).players) >= 3
    THEN r0 < Len(RoomOf(s).players) /\ RoomOf(s).round < MaxRound
    ELSE r0 = 0

GameStart(s, r0, r1, r2) ==
    /\ s \in connected
    /\ StartInputs(s, r0)
    /\ Commit(onGameStart(s, r0, r1, r2))
    /\ UNCHANGED <<socketToRoom, connected, closed, seats>>

onRoundNext(s, r0, r1, r2) ==
    IF ~HasRoom(s) THEN Nothing
    ELSE IF RoomOf(s).hostId # s THEN Nothing
    ELSE startGame(Begin(socketToRoom[s]), r0, r1, r2)

RoundNext(s, r0, r1, r2) ==
    /\ s \in connected
    /\ StartInputs(s, r0)
    /\ Commit(onRoundNext(s, r0, r1, r2))
    /\ UNCHANGED <<socketToRoom, connected, closed, seats>>

\* mutant: the phase is not checked
onDrawStroke_AnyPhase(s, stroke) ==
    IF ~HasRoom(s) THEN Nothing
    ELSE IF RoomOf(s).currentDrawerId # s THEN Nothing
    ELSE LET e == Begin(socketToRoom[s])
         IN Emit([e EXCEPT !.room.drawing = Append(@, stroke)],
                 [ev |-> "draw:stroke", to |-> e.room.code, except |-> s, stroke |-> stroke])

onDrawStroke(s, stroke) ==
    IF ~HasRoom(s) THEN Nothing
    ELSE IF RoomOf(s).currentDrawerId # s \/ RoomOf(s).phase # "drawing" THEN Nothing
    ELSE LET e == Begin(socketToRoom[s])
         IN Emit([e EXCEPT !.room.drawing = Append(@, stroke)],
                 [ev |-> "draw:stroke", to |-> e.room.code, except |-> s, stroke |-> stroke])

DrawStroke(s, stroke) ==
    /\ s \in connected
    /\ LET e == onDrawStroke(s, stroke)
       IN /\ e.hit => Len(e.room.drawing) <= MaxStrokes
          /\ Commit(e)
    /\ UNCHANGED <<socketToRoom, connected, closed, seats>>

\* room.votes[socket.id] = targetId: a new key goes last, an old key keeps its place
SetVote(votes, voter, target) ==
    IF \E i \in 1..Len(votes) : votes[i].voter = voter
    THEN [i \in 1..Len(votes) |->
            IF votes[i].voter = voter THEN [voter |-> voter, target |-> target] ELSE votes[i]]
    ELSE Append(votes, [voter |-> voter, target |-> target])

\* history: the vote is cast now; an earlier vote of the voter no longer counts
CastVote(cast, voter, target) ==
    Append(SelectSeq(cast, LAMBDA v : v.voter # voter), [voter |-> voter, target |-> target])

onVoteSubmit(s, targetId) ==
    IF ~HasRoom(s) THEN Nothing
    ELSE IF RoomOf(s).phase # "voting" THEN Nothing
    ELSE LET e == Begin(socketToRoom[s])
             e1 == emitRoom([e EXCEPT !.room.votes = SetVote(@, s, targetId),
                                      !.room.gCast = CastVote(@, s, targetId)])
         IN IF Len(e1.room.votes) >= Len(e1.room.players)
            THEN computeVoting(Emit(e1, [ev |-> "sfx", to |-> e.room.code, name |-> "voting"]))
            ELSE e1

\* a request the handler drops is sent with one payload only
VoteSubmit(s, targetId) ==
    /\ s \in connected
    /\ (~HasRoom(s) \/ RoomOf(s).phase # "voting") => targetId = "s1"
    /\ Commit(onVoteSubmit(s, targetId))
    /\ UNCHANGED <<socketToRoom, connected, closed, seats>>

\* guess.trim().toLowerCase() === room.realWord?.toLowerCase()
IsCorrect(guess, realWord) ==
    /\ realWord # NULL
    /\ toLowerCase(trim(Chars(guess))) = toLowerCase(Chars(realWord))

onImposterGuess(s, guess) ==
    IF ~HasRoom(s) THEN Nothing
    ELSE IF s # RoomOf(s).imposterId THEN Nothing
    ELSE LET e == Begin(socketToRoom[s])
             room == e.room
             correct == IsCorrect(guess, room.realWord)
         IN IF correct
            THEN LET room1 == [ReachResults(room) EXCEPT
                                  !.phase = "results",
                                  !.leaderboard = ScoreGuess(@, room.players, 1, s)]
                     e1 == Emit(emitRoom([e EXCEPT !.room = room1]),
                                [ev |-> "phase:results", to |-> room.code,
                                 suspected |-> NULL,
                                 imposterId |-> room.imposterId,
                                 realWord |-> room.realWord,
                                 tally |-> room.votes,
                                 imposterWins |-> TRUE,
                                 guessedWord |-> guess])
                 IN Reply(e1, s, [correct |-> TRUE])
            ELSE Reply(e, s, [correct |-> FALSE])

ImposterGuess(s, guess) ==
    /\ s \in connected
    /\ (~HasRoom(s) \/ s # RoomOf(s).imposterId) => guess = "Tisch"
    /\ LET e == onImposterGuess(s, guess)
       IN /\ e.hit =>
                \A id \in DOMAIN e.room.leaderboard :
                    /\ e.room.leaderboard[id].wins <= MaxScore
                    /\ e.room.leaderboard[id].losses <= MaxScore
          /\ Commit(e)
    /\ UNCHANGED <<socketToRoom, connected, closed, seats>>

\* disconnect.  The effect record's room is the room as the handler leaves
\* it, also when the handler deletes it from rooms (deleted).
Ended(e, deleted) ==
    [hit |-> e.hit, room |-> e.room, msgs |-> e.msgs, timers |-> e.timers,
     deleted |-> deleted]

\* mutant: the host role does not move
onDisconnect_KeepHost(s) ==
    IF ~HasRoom(s) THEN Ended(Nothing, FALSE)
    ELSE LET e == Begin(socketToRoom[s])
             left == Filter(e.room.players, s)
             e1 == [e EXCEPT !.room.players = left,
                             !.room.leaderboard = MapDelete(@, s),
                             !.room.gSeen = MapDelete(@, s),
                             !.room.gTurns = MapDelete(@, s)]
             e2 == e1
         IN IF Len(left) = 0
            THEN Ended(clearTimer(e2), TRUE)
            ELSE Ended(emitRoom(e2), FALSE)

\* mutant: the timer of a removed room stays scheduled
onDisconnect_KeepTimer(s) ==
    IF ~HasRoom(s) THEN Ended(Nothing, FALSE)
    ELSE LET e == Begin(socketToRoom[s])
             left == Filter(e.room.players, s)
             e1 == [e EXCEPT !.room.players = left,
                             !.room.leaderboard = MapDelete(@, s),
                             !.room.gSeen = MapDelete(@, s),
                             !.room.gTurns = MapDelete(@, s)]
             e2 == IF e1.room.hostId = s /\ Len(left) > 0
                   THEN [e1 EXCEPT !.room.hostId = left[1].id,
                                   !.room.players[1].isHost = TRUE]
                   ELSE e1
         IN IF Len(left) = 0
            THEN Ended(e2, TRUE)
            ELSE Ended(emitRoom(e2), FALSE)

onDisconnect(s) ==
    IF ~HasRoom(s) THEN Ended(Nothing, FALSE)
    ELSE LET e == Begin(socketToRoom[s])
             left == Filter(e.room.players, s)
             e1 == [e EXCEPT !.room.players = left,
                             !.room.leaderboard = MapDelete(@, s),
                             !.room.gSeen = MapDelete(@, s),
                             !.room.gTurns = MapDelete(@, s)]
             e2 == IF e1.room.hostId = s /\ Len(left) > 0
                   THEN [e1 EXCEPT !.room.hostId = left[1].id,
                                   !.room.players[1].isHost = TRUE]
                   ELSE e1
         IN IF Len(left) = 0
            THEN Ended(clearTimer(e2), TRUE)
            ELSE Ended(emitRoom(e2), FALSE)

Disconnect(s) ==
    /\ s \in connected
    /\ connected' = connected \ {s}
    /\ closed' = closed \cup {s}
    /\ UNCHANGED seats
    /\ socketToRoom' = MapDelete(socketToRoom, s)
    /\ LET e == onDisconnect(s)
       IN IF ~e.hit THEN UNCHANGED <<rooms, timers>>
          ELSE IF e.deleted
          THEN /\ rooms' = MapDelete(rooms, e.room.code)
               /\ timers' = [timers EXCEPT ![e.room.code] = e.timers]
          ELSE Commit(e)

\* a scheduled callback runs; isRef: it is the one room.timerRef refers to
onTimer(code, isRef) ==
    LET e == Begin(code)
    IN timerCallback([e EXCEPT !.timers = @ - 1,
                               !.room.timerRef = IF isRef THEN "dead" ELSE @])

TimerFire(code, isRef) ==
    /\ code \in DOMAIN rooms
    /\ timers[code] > 0
    /\ isRef => rooms[code].timerRef = "pending"
    /\ ~isRef => timers[code] > (IF rooms[code].timerRef = "pending" THEN 1 ELSE 0)
    /\ Commit(onTimer(code, isRef))
    /\ UNCHANGED <<socketToRoom, connected, closed, seats>>

----------------------------------------------------------------------------
(* Initial state: the server has started; no connection, no room.          *)

Init ==
    /\ rooms = EmptyMap
    /\ socketToRoom = EmptyMap
    /\ connected = {}
    /\ closed = {}
    /\ timers = [c \in Codes |-> 0]
    /\ seats = 0

Next ==
    \/ \E s \in Sockets : RoomCreate(s)
    \/ \E s \in Sockets, code \in JoinCodes : RoomJoin(s, code)
    \/ \E s \in Sockets, r0 \in 0..(MaxSeats - 1), r1 \in WordDraws,
          r2 \in WordDraws : GameStart(s, r0, r1, r2)
    \/ \E s \in Sockets, r0 \in 0..(MaxSeats - 1), r1 \in WordDraws,
          r2 \in WordDraws : RoundNext(s, r0, r1, r2)
    \/ \E s \in Sockets, stroke \in Strokes : DrawStroke(s, stroke)
    \/ \E s \in Sockets, targetId \in Targets : VoteSubmit(s, targetId)
    \/ \E s \in Sockets, guess \in Guesses : ImposterGuess(s, guess)
    \/ \E s \in Sockets : Disconnect(s)
    \/ \E code \in Codes, isRef \in BOOLEAN : TimerFire(code, isRef)

Spec == Init /\ [][Next]_vars

----------------------------------------------------------------------------
(* Properties *)

RoomCodes == DOMAIN rooms

\* the sockets whose handlers resolve the room `code`
Members(code) == {s \in connected : HasRoom(s) /\ socketToRoom[s] = code}

NoDuplicates(room) ==
    \A i, j \in 1..Len(room.players) : room.players[i].id = room.players[j].id => i = j

\* the fields a turn-timer expiry writes
TurnState(room) ==
    <<room.phase, room.turnIndex, room.currentDrawerId, room.drawing, room.turnEndsAt>>

\* the timer of the room was armed for a state the room has left
Stale(room) == room.phase # "drawing" \/ room.turnIndex # room.gArmedTurn

\* C1: a turn-timer expiry delivered after the room has left the state the
\* timer was armed for (the phase is no longer drawing, or turnIndex is not
\* the one at arming) changes neither phase, turnIndex, currentDrawerId, the
\* stroke log nor the deadline (stated for the rooms whose player list names
\* nobody twice).
C1_StaleExpiryIsNoOp ==
    [][\A code \in Codes, isRef \in BOOLEAN :
          (/\ code \in RoomCodes
           /\ NoDuplicates(rooms[code])
           /\ Stale(rooms[code])
           /\ TimerFire(code, isRef))
              => TurnState(rooms'[code]) = TurnState(rooms[code])]_vars

\* C2: once a room is in phase results it stays in results until the host
\* issues start-game or next-round with at least 3 players present: every
\* step that takes a room out of results is such a start (stated for the
\* rooms whose player list names nobody twice).
C2_ResultsUntilHostStart ==
    [][\A code \in Codes :
          (/\ code \in RoomCodes
           /\ code \in DOMAIN rooms'
           /\ NoDuplicates(rooms[code])
           /\ rooms[code].phase = "results"
           /\ rooms'[code].phase # "results")
              => /\ Len(rooms[code].players) >= 3
                 /\ \E s \in Members(code), r0 \in 0..(MaxSeats - 1),
                       r1 \in WordDraws, r2 \in WordDraws :
                       /\ rooms[code].hostId = s
                       /\ \/ GameStart(s, r0, r1, r2)
                          \/ RoundNext(s, r0, r1, r2)]_vars

\* C3: for every current player p of every room, leaderboard wins(p) +
\* losses(p) is the number of rounds that reached results while p was in
\* the room (stated for the rooms whose player list names nobody twice).
C3_ScoredOncePerRound ==
    \A code \in RoomCodes :
        LET room == rooms[code] IN
        NoDuplicates(room) =>
            \A i \in 1..Len(room.players) :
                LET id == room.players[i].id IN
                /\ id \in DOMAIN room.leaderboard
                /\ room.leaderboard[id].wins + room.leaderboard[id].losses = room.gSeen[id]

Voted(room, id) == \E i \in 1..Len(room.votes) : room.votes[i].voter = id

\* C4: voting resolves at most once per round, and a step that resolves it
\* (computeVoting ran) leaves no current player without a recorded vote; a
\* vote that leaves some current player without one does not resolve.
C4_ResolvesWhenAllVoted ==
    [][\A code \in Codes :
          (code \in RoomCodes /\ code \in DOMAIN rooms')
              => /\ rooms'[code].gResolved <= 1
                 /\ (rooms'[code].gResolved > rooms[code].gResolved)
                        => \A i \in 1..Len(rooms'[code].players) :
                               Voted(rooms'[code], rooms'[code].players[i].id)]_vars

\* what the claims call a matching guess: equal to the real word up to case
\* and surrounding blanks
Matching == {<<"Tisch", "Tisch">>, <<" tISch ", "Tisch">>}

\* C5: a guess of the imposter that matches the real word moves the room to
\* results, the imposter gains one win and every other player one loss; any
\* other guess leaves the room as it is.
C5_GuessOutcome ==
    [][\A s \in Sockets, guess \in Guesses :
          (HasRoom(s) /\ ImposterGuess(s, guess))
              => LET old == RoomOf(s)
                     new == rooms'[socketToRoom[s]]
                 IN IF s = old.imposterId /\ <<guess, old.realWord>> \in Matching
                    THEN /\ new.phase = "results"
                         /\ \A i \in 1..Len(old.players) :
                              LET id == old.players[i].id IN
                              /\ new.leaderboard[id].wins =
                                   old.leaderboard[id].wins + (IF id = s THEN 1 ELSE 0)
                              /\ new.leaderboard[id].losses =
                                   old.leaderboard[id].losses + (IF id = s THEN 0 ELSE 1)
                    ELSE new = old]_vars

----------------------------------------------------------------------------
(* Properties of single handlers, stated in every reachable state for      *)
(* every socket and input the handler may be called with.                   *)

Relayed(e, code, s, stroke) ==
    \E k \in 1..Len(e.msgs) :
        e.msgs[k] = [ev |-> "draw:stroke", to |-> code, except |-> s, stroke |-> stroke]

\* C6: a stroke is appended to the stroke log and relayed if the room's
\* phase is drawing and the sender is currentDrawerId; a stroke from any
\* other player, or in any other phase, changes nothing and emits nothing.
C6_StrokeOnlyFromDrawer ==
    \A s \in connected, stroke \in Strokes :
        HasRoom(s) =>
            LET room == RoomOf(s)
                e == onDrawStroke(s, stroke)
            IN IF room.phase = "drawing" /\ room.currentDrawerId = s
               THEN /\ e.hit
                    /\ e.room.drawing = Append(room.drawing, stroke)
                    /\ Relayed(e, room.code, s, stroke)
               ELSE /\ ~e.hit
                    /\ e.msgs = <<>>

C6_Witness ==
    \E code \in RoomCodes :
        /\ rooms[code].phase = "results"
        /\ rooms[code].currentDrawerId \in Members(code)
        /\ Len(rooms[code].drawing) = 1

Hosts(room) == {i \in 1..Len(room.players) : room.players[i].isHost}

\* C7: every room with a non-empty player list has exactly one player with
\* isHost = TRUE, and when the host leaves while other players remain, the
\* first remaining player in list order is the host.
C7_ExactlyOneHost ==
    /\ \A code \in RoomCodes : Cardinality(Hosts(rooms[code])) = 1
    /\ \A s \in connected :
          HasRoom(s) =>
              LET room == RoomOf(s)
                  left == Filter(room.players, s)
                  e == onDisconnect(s)
              IN (left # <<>> /\ \E i \in Hosts(room) : room.players[i].id = s)
                    => /\ ~e.deleted
                       /\ Hosts(e.room) = {1}
                       /\ e.room.players[1].id = left[1].id
                       /\ e.room.hostId = left[1].id

C7_Witness ==
    \E code \in RoomCodes :
        /\ rooms[code].round >= 1
        /\ rooms[code].hostId # "s1"
        /\ Len(rooms[code].players) = 2
        /\ rooms[code].players[1].isHost

\* the handler, run for socket s, changed nothing and emitted nothing
Untouched(s, e) ==
    /\ e.msgs = <<>>
    /\ e.hit => /\ e.room = RoomOf(s)
                /\ e.timers = timers[socketToRoom[s]]

\* C8: start-game or next-round issued while the room has 2 or fewer players
\* changes nothing (phase, round, turnIndex, imposter, words, votes), arms no
\* timer and emits nothing.
C8_StartNeedsThreePlayers ==
    \A s \in connected, r0 \in 0..(MaxSeats - 1),
       r1 \in WordDraws, r2 \in WordDraws :
        (HasRoom(s) /\ Len(RoomOf(s).players) <= 2) =>
            /\ Untouched(s, onGameStart(s, r0, r1, r2))
            /\ Untouched(s, onRoundNext(s, r0, r1, r2))

C8_Witness ==
    \E code \in RoomCodes :
        /\ rooms[code].hostId \in Members(code)
        /\ Len(rooms[code].players) = 2
        /\ rooms[code].phase = "results"
        /\ rooms[code].round < MaxRound

\* C9: a turn-timer expiry in phase drawing increases turnIndex by exactly 1
\* and then either starts the turn of players[turnIndex] (phase drawing,
\* currentDrawerId that player, stroke log empty, timer armed again) or, if
\* turnIndex has reached the player count, enters voting with
\* currentDrawerId and the deadline cleared.
C9_ExpiryAdvancesTurn ==
    \A code \in RoomCodes :
        (rooms[code].phase = "drawing" /\ timers[code] > 0 /\ rooms[code].timerRef = "pending") =>
            LET room == rooms[code]
                e == onTimer(code, TRUE)
                n == room.turnIndex + 1
            IN /\ e.room.turnIndex = n
               /\ IF n >= Len(room.players)
                  THEN /\ e.room.phase = "voting"
                       /\ e.room.currentDrawerId = NULL
                       /\ e.room.turnEndsAt = None
                       /\ e.timers = 0
                  ELSE /\ e.room.phase = "drawing"
                       /\ e.room.currentDrawerId = room.players[n + 1].id
                       /\ e.room.drawing = <<>>
                       /\ e.room.turnEndsAt # None
                       /\ e.room.timerRef = "pending"
                       /\ e.timers = 1

C9_Witness ==
    \E code \in RoomCodes :
        /\ rooms[code].phase = "drawing"
        /\ rooms[code].turnIndex = 1
        /\ rooms[code].currentDrawerId = rooms[code].players[2].id
        /\ rooms[code].drawing = <<>>
        /\ timers[code] = 1

\* a message that names the imposter, or tells its receiver more than its own role
Secret(m, room) ==
    \/ m.ev = "room:update" /\ m.view.imposterId # NULL
    \/ m.ev = "phase:results"
    \/ m.ev = "word:assigned" /\ ~(/\ m.to \in Ids(room.players)
                                   /\ m.to \notin Codes
                                   /\ m.isImposter = (m.to = room.imposterId))

\* what a handler emitted keeps the imposter secret outside results
Discreet(e) ==
    \A k \in 1..Len(e.msgs) :
        LET m == e.msgs[k] IN
        /\ m.ev = "room:update" =>
              (m.view.phase # "results" => m.view.imposterId = NULL)
        /\ Secret(m, e.room) => /\ m.ev \in {"room:update", "phase:results"}
                                /\ e.room.phase = "results"

\* C10: every room snapshot broadcast while the phase is not results carries
\* a null imposter identity, the message revealing the imposter is emitted
\* only in phase results, and a word assignment goes to the socket of the
\* player it is computed for: whatever handler runs next, with whatever input.
C10_ImposterSecret ==
    /\ \A s \in Sockets :
          Known(s) => /\ Codes \ RoomCodes # {} => Discreet(onRoomCreate(s, makeRoomCode))
                      /\ \A code \in JoinCodes : Discreet(onRoomJoin(s, code))
    /\ \A s \in connected :
          /\ \A r0 \in 0..(MaxSeats - 1) :
                (HasRoom(s) => r0 < Len(RoomOf(s).players))
                    => /\ Discreet(onGameStart(s, r0, 0, 0))
                       /\ Discreet(onRoundNext(s, r0, 0, 0))
          /\ \A stroke \in Strokes : Discreet(onDrawStroke(s, stroke))
          /\ \A targetId \in Targets : Discreet(onVoteSubmit(s, targetId))
          /\ \A guess \in Guesses : Discreet(onImposterGuess(s, guess))
          /\ Discreet(onDisconnect(s))
    /\ \A code \in RoomCodes :
          (timers[code] > 0 /\ rooms[code].timerRef = "pending") => Discreet(onTimer(code, TRUE))

C10_Witness ==
    \E code \in RoomCodes :
        /\ rooms[code].phase = "voting"
        /\ rooms[code].imposterId \in Ids(rooms[code].players)
        /\ Len(rooms[code].players) = 3

----------------------------------------------------------------------------
(* Words, votes and turns *)

\* a connection that has sent nothing yet
Newcomer == "s4"

\* the handler told socket id its role: some word:assigned went to it, and
\* every word:assigned that went to it carries the word and the flag of its role
Assigned(e, id) ==
    /\ \E k \in 1..Len(e.msgs) : e.msgs[k].ev = "word:assigned" /\ e.msgs[k].to = id
    /\ \A k \in 1..Len(e.msgs) :
          (e.msgs[k].ev = "word:assigned" /\ e.msgs[k].to = id)
              => /\ e.msgs[k].isImposter = (id = e.room.imposterId)
                 /\ e.msgs[k].word = IF id = e.room.imposterId
                                      THEN e.room.fakeWord ELSE e.room.realWord

\* C11: in every round the imposter is assigned the decoy word with
\* isImposter = TRUE and every other player of the room the real word with
\* isImposter = FALSE, and the two words differ: for every pair of draws
\* pickWordPair yields distinct words, a start that begins a round assigns
\* every player of the room its word, and a player who joins a room whose
\* round is running is assigned the real word.
C11_WordsAssigned ==
    /\ \A r1 \in 0..(Len(WORDS) - 1), r2 \in 0..(Len(FAKE_WORDS) - 1) :
          pickWordPair(r1, r2).realWord # pickWordPair(r1, r2).fakeWord
    /\ \A s \in connected, r0 \in 0..(MaxSeats - 1), r1 \in WordDraws, r2 \in WordDraws :
          (HasRoom(s) /\ RoomOf(s).hostId = s /\ Len(RoomOf(s).players) >= 3
             /\ r0 < Len(RoomOf(s).players))
              => LET e == onGameStart(s, r0, r1, r2)
                 IN /\ e.room.imposterId = RoomOf(s).players[r0 + 1].id
                    /\ e.room.realWord # e.room.fakeWord
                    /\ \A i \in 1..Len(e.room.players) : Assigned(e, e.room.players[i].id)
    /\ \A code \in RoomCodes :
          rooms[code].phase \in {"drawing", "voting"}
              => LET e == onRoomJoin(Newcomer, code)
                 IN /\ Newcomer \in Ids(e.room.players)
                    /\ Assigned(e, Newcomer)

\* C12: the keys of a room's vote map are identities of its current players
\* (also after a voter has left), and the vote map is empty right after
\* every start that begins a round.
C12_VoteKeysArePlayers ==
    /\ \A code \in RoomCodes :
          \A i \in 1..Len(rooms[code].votes) :
              rooms[code].votes[i].voter \in Ids(rooms[code].players)
    /\ \A s \in connected, r0 \in 0..(MaxSeats - 1), r1 \in WordDraws, r2 \in WordDraws :
          (HasRoom(s) /\ RoomOf(s).hostId = s /\ Len(RoomOf(s).players) >= 3
             /\ r0 < Len(RoomOf(s).players))
              => /\ onGameStart(s, r0, r1, r2).room.votes = <<>>
                 /\ onRoundNext(s, r0, r1, r2).room.votes = <<>>

\* the phase:results payload a handler emitted
Verdict(e) ==
    e.msgs[CHOOSE k \in 1..Len(e.msgs) : e.msgs[k].ev = "phase:results"]

\* the handler ran computeVoting on the room `old`
Resolves(old, e) == e.hit /\ e.room.gResolved > old.gResolved

\* C13: when voting resolves, the imposter's side wins exactly when the
\* suspected identity differs from the imposter; on an imposter win the
\* imposter gains one win and every other current player one loss, otherwise
\* the imposter gains one loss and every other current player one win.
C13_VotingOutcome ==
    \A s \in connected, targetId \in Targets :
        HasRoom(s) =>
            LET old == RoomOf(s)
                e == onVoteSubmit(s, targetId)
            IN Resolves(old, e) =>
                 LET win == Verdict(e).suspected # old.imposterId IN
                 /\ e.room.phase = "results"
                 /\ Verdict(e).imposterWins = win
                 /\ \A i \in 1..Len(old.players) :
                       LET id == old.players[i].id
                           gains == (id = old.imposterId) <=> win
                       IN /\ e.room.leaderboard[id].wins =
                               old.leaderboard[id].wins + (IF gains THEN 1 ELSE 0)
                          /\ e.room.leaderboard[id].losses =
                               old.leaderboard[id].losses + (IF gains THEN 0 ELSE 1)

\* votes for t among the first k casts
CountIn(cast, k, t) == Cardinality({j \in 1..k : cast[j].target = t})

\* the highest vote count of an accused identity
MaxCount(cast) ==
    CHOOSE m \in 1..Len(cast) :
        /\ \E k \in 1..Len(cast) : CountIn(cast, Len(cast), cast[k].target) = m
        /\ \A k \in 1..Len(cast) : CountIn(cast, Len(cast), cast[k].target) <= m

\* the accused identities with the highest count
Leaders(cast) ==
    {cast[k].target : k \in {j \in 1..Len(cast) :
                                 CountIn(cast, Len(cast), cast[j].target) = MaxCount(cast)}}

\* the accused identity that reached the highest count first, in cast order
FirstToReach(cast) ==
    cast[CHOOSE k \in 1..Len(cast) :
            /\ CountIn(cast, k, cast[k].target) = MaxCount(cast)
            /\ \A j \in 1..(k - 1) : CountIn(cast, j, cast[j].target) < MaxCount(cast)].target

\* C14: when several accused identities share the highest vote count at
\* resolution, the suspected identity is the first of them to have reached
\* that count, in the order the votes were cast (stated for the rooms whose
\* player list names nobody twice and whose votes are all of current
\* players; the vote that resolves may accuse any socket id).
C14_TieGoesToFirstToReach ==
    \A s \in connected, targetId \in Sockets :
        (HasRoom(s) /\ NoDuplicates(RoomOf(s))
           /\ \A i \in 1..Len(RoomOf(s).votes) :
                  RoomOf(s).votes[i].voter \in Ids(RoomOf(s).players))
            => LET old == RoomOf(s)
                   e == onVoteSubmit(s, targetId)
                   cast == CastVote(old.gCast, s, targetId)
               IN (Resolves(old, e) /\ Cardinality(Leaders(cast)) > 1)
                      => Verdict(e).suspected = FirstToReach(cast)

\* C15: within one round every player who is in the room from startGame
\* until the room enters voting is the current drawer of exactly one turn,
\* also when another player leaves during the drawing phase (stated for the
\* rooms that are in voting with two or more players, none listed twice).
C15_OneTurnEach ==
    \A code \in RoomCodes :
        (/\ rooms[code].phase = "voting"
         /\ Len(rooms[code].players) >= 2
         /\ NoDuplicates(rooms[code]))
            => \A id \in DOMAIN rooms[code].gTurns :
                   id \in Ids(rooms[code].players) => rooms[code].gTurns[id] = 1

\* the fields a start writes
RoundState(room) ==
    <<room.round, room.turnIndex, room.imposterId, room.realWord, room.fakeWord,
      room.votes, room.phase>>

\* C16: start-game and next-round take effect only from the rest states:
\* issued by the host while the phase is drawing or voting they leave round,
\* turnIndex, imposter, words, votes and phase as they are (stated for the
\* rooms whose player list names nobody twice).
C16_StartOnlyFromRest ==
    \A s \in connected, r0 \in 0..(MaxSeats - 1), r1 \in WordDraws, r2 \in WordDraws :
        (/\ HasRoom(s)
         /\ RoomOf(s).hostId = s
         /\ RoomOf(s).phase \in {"drawing", "voting"}
         /\ NoDuplicates(RoomOf(s))
         /\ r0 < Len(RoomOf(s).players))
            => /\ RoundState(onGameStart(s, r0, r1, r2).room) = RoundState(RoomOf(s))
               /\ RoundState(onRoundNext(s, r0, r1, r2).room) = RoundState(RoomOf(s))

\* C17: start-game or next-round issued by a player who is not the host of
\* its room has no effect in any phase: the room and its timers stay as
\* they are and nothing is emitted.
C17_OnlyHostStarts ==
    \A s \in connected, r0 \in 0..(MaxSeats - 1), r1 \in WordDraws, r2 \in WordDraws :
        (HasRoom(s) /\ RoomOf(s).hostId # s /\ r0 < Len(RoomOf(s).players))
            => /\ Untouched(s, onGameStart(s, r0, r1, r2))
               /\ Untouched(s, onRoundNext(s, r0, r1, r2))

C17_Witness ==
    \E s \in connected :
        /\ HasRoom(s)
        /\ RoomOf(s).hostId # s
        /\ RoomOf(s).hostId \in Members(socketToRoom[s])
        /\ Len(RoomOf(s).players) >= 3
        /\ RoomOf(s).phase = "results"
        /\ RoomOf(s).round < MaxRound

----------------------------------------------------------------------------
(* Registry and timers *)

\* C18: an identity is in the player list of room R if and only if the
\* lookup maps it to R's code, whatever sequence of create, join and leave
\* is issued (a connected participant may issue create or join repeatedly).
C18_LookupMatchesRosters ==
    \A code \in RoomCodes, s \in Sockets :
        s \in Ids(rooms[code].players)
            <=> (s \in DOMAIN socketToRoom /\ socketToRoom[s] = code)

\* C19: a room is removed as soon as its player list becomes empty and its
\* pending timer is cancelled then: no registered room has an empty player
\* list, no callback is scheduled for a code without a registered room, and
\* the disconnect handler removes the room exactly when the list is empty,
\* leaving no scheduled callback.
C19_EmptyRoomRemoved ==
    /\ \A code \in RoomCodes : rooms[code].players # <<>>
    /\ \A code \in Codes \ RoomCodes : timers[code] = 0
    /\ \A s \in connected :
          HasRoom(s) =>
              LET e == onDisconnect(s)
              IN /\ e.deleted <=> (e.room.players = <<>>)
                 /\ e.deleted => e.timers = 0

C19_Witness ==
    \E s \in connected :
        /\ HasRoom(s)
        /\ Ids(RoomOf(s).players) = {s}
        /\ NoDuplicates(RoomOf(s))
        /\ RoomOf(s).phase = "drawing"
        /\ RoomOf(s).timerRef = "pending"
        /\ timers[socketToRoom[s]] = 1

\* C20: at most one turn timer is pending per room, and it is the one
\* room.timerRef refers to; a start or an expiry that arms a timer leaves
\* exactly one, also when the host restarts the game while a turn is running.
C20_OneTimerPerRoom ==
    /\ \A code \in Codes : timers[code] <= 1
    /\ \A code \in RoomCodes : timers[code] = 1 <=> rooms[code].timerRef = "pending"
    /\ \A s \in connected, r0 \in 0..(MaxSeats - 1), r1 \in WordDraws, r2 \in WordDraws :
          (HasRoom(s) /\ RoomOf(s).hostId = s /\ Len(RoomOf(s).players) >= 3
             /\ r0 < Len(RoomOf(s).players))
              => /\ onGameStart(s, r0, r1, r2).timers = 1
                 /\ onRoundNext(s, r0, r1, r2).timers = 1
    /\ \A code \in RoomCodes :
          rooms[code].timerRef = "pending" => onTimer(code, TRUE).timers <= 1

C20_Witness ==
    \E s \in connected :
        /\ HasRoom(s)
        /\ RoomOf(s).hostId = s
        /\ Len(RoomOf(s).players) >= 3
        /\ RoomOf(s).round = MaxRound
        /\ RoomOf(s).phase = "drawing"
        /\ RoomOf(s).turnIndex = 0
        /\ \A id \in DOMAIN RoomOf(s).gSeen : RoomOf(s).gSeen[id] = 0
        /\ timers[socketToRoom[s]] = 1

----------------------------------------------------------------------------
(* Voting that waits, and the identities a round names *)

\* C22: no room stays in voting once every current player has a vote
\* recorded: in every reachable state with phase voting some current player
\* has no entry in the vote map, also after a player left during voting
\* (stated for the rooms that are in voting with two or more players, none
\* listed twice).
C22_VotingWaitsForSomeone ==
    \A code \in RoomCodes :
        (/\ rooms[code].phase = "voting"
         /\ Len(rooms[code].players) >= 2
         /\ NoDuplicates(rooms[code]))
            => \E i \in 1..Len(rooms[code].players) :
                   ~Voted(rooms[code], rooms[code].players[i].id)

\* C23: while a room is in drawing or voting its imposterId is a player of
\* its list, and in drawing currentDrawerId is players[turnIndex], also
\* after a player left in the middle of the round (stated for the rooms
\* with two or more players, none listed twice).
C23_RoundNamesPlayers ==
    \A code \in RoomCodes :
        LET room == rooms[code] IN
        (Len(room.players) >= 2 /\ NoDuplicates(room))
            => /\ room.phase \in {"drawing", "voting"}
                     => room.imposterId \in Ids(room.players)
               /\ room.phase = "drawing"
                     => /\ room.turnIndex + 1 \in DOMAIN room.players
                        /\ room.currentDrawerId = room.players[room.turnIndex + 1].id

----------------------------------------------------------------------------
(* A round that nobody interrupts *)

\* game:start as the last request the server receives: the host's request
\* starts a round (startGame does not return early), and from then on only
\* the scheduled callbacks run
LastStart(s, r0, r1, r2) ==
    /\ s \in connected
    /\ StartInputs(s, r0)
    /\ onGameStart(s, r0, r1, r2).hit
    /\ onGameStart(s, r0, r1, r2).room.round > RoomOf(s).round
    /\ Commit([onGameStart(s, r0, r1, r2) EXCEPT !.room.gQuiet = TRUE])
    /\ UNCHANGED <<socketToRoom, connected, closed, seats>>

Quiet(code) == code \in RoomCodes /\ rooms[code].gQuiet

Silent == \E code \in Codes : Quiet(code)

\* the callback setTimeout scheduled for a room runs
Expire(code) == \E isRef \in BOOLEAN : TimerFire(code, isRef)

\* Until the last start the clients create and join rooms, start rounds,
\* guess and leave (rounds are interrupted by a restart, ended by a guess
\* with the turn's callback still scheduled, and thinned by departures);
\* after it only the callbacks run.
QuietNext ==
    \/ ~Silent /\ \E s \in Sockets : RoomCreate(s)
    \/ ~Silent /\ \E s \in Sockets, code \in JoinCodes : RoomJoin(s, code)
    \/ ~Silent /\ \E s \in Sockets, r0 \in 0..(MaxSeats - 1), r1 \in WordDraws,
                     r2 \in WordDraws : GameStart(s, r0, r1, r2)
    \/ ~Silent /\ \E s \in Sockets, r0 \in 0..(MaxSeats - 1), r1 \in WordDraws,
                     r2 \in WordDraws : RoundNext(s, r0, r1, r2)
    \/ ~Silent /\ \E s \in Sockets, guess \in Guesses : ImposterGuess(s, guess)
    \/ ~Silent /\ \E s \in Sockets : Disconnect(s)
    \/ ~Silent /\ \E s \in Sockets, r0 \in 0..(MaxSeats - 1), r1 \in WordDraws,
                     r2 \in WordDraws : LastStart(s, r0, r1, r2)
    \/ \E code \in Codes : Expire(code)

\* a scheduled callback runs once its delay has passed
QuietSpec ==
    /\ Init
    /\ [][QuietNext]_vars
    /\ \A code \in Codes : WF_vars(Expire(code))

\* the turns the entries of the list up to position n have had
TurnsUpTo(room, n, id) ==
    Cardinality({i \in 1..n : i <= Len(room.players) /\ room.players[i].id = id})

\* the round is at turn turnIndex of the list, every entry before it has had
\* its turn, or all entries have had theirs and the room is voting
TurnInOrder(room) ==
    /\ \/ /\ room.phase = "drawing"
          /\ room.turnIndex < Len(room.players)
          /\ room.currentDrawerId = room.players[room.turnIndex + 1].id
          /\ room.timerRef = "pending"
       \/ /\ room.phase = "voting"
          /\ room.turnIndex = Len(room.players)
    /\ \A id \in Ids(room.players) :
          /\ id \in DOMAIN room.gTurns
          /\ room.gTurns[id] = TurnsUpTo(room, room.turnIndex + 1, id)

\* C21: after a start that is followed by no further request, while the
\* scheduled callbacks run, the room reaches voting; it begins at turn 0,
\* every step raises turnIndex by one, each turn is the turn of
\* players[turnIndex], and voting begins when turnIndex is the player count:
\* one drawing turn per entry of the list, in order.
C21_QuietRoundReachesVoting ==
    /\ \A code \in Codes :
          Quiet(code) ~> (Quiet(code) /\ rooms[code].phase = "voting")
    /\ [](\A code \in Codes : Quiet(code) => TurnInOrder(rooms[code]))
    /\ [][\A code \in Codes :
            (code \in DOMAIN rooms' /\ rooms'[code].gQuiet)
                => IF Quiet(code)
                   THEN \/ rooms'[code] = rooms[code]
                        \/ rooms'[code].turnIndex = rooms[code].turnIndex + 1
                   ELSE rooms'[code].turnIndex = 0]_vars

C21_Witness ==
    \E code \in Codes :
        /\ Quiet(code)
        /\ rooms[code].phase = "voting"
        /\ rooms[code].turnIndex = 3
        /\ NoDuplicates(rooms[code])

====
